---- MODULE Spec2Model ----
(***************************************************************************)
(* losetup-server: a mount wrapper (mount-wrapper.py) that sets up loop    *)
(* devices through a losetup client (losetup-client.py), which delegates   *)
(* the losetup call to a host-side agent (server.py).                      *)
(*                                                                         *)
(* Strings are sequences of one-character strings, so that prefix tests,   *)
(* splitting, joining and path normalisation are computed, not assumed.    *)
(***************************************************************************)
EXTENDS Integers, Sequences, FiniteSets, TLC

(***************************************************************************)
(* Bounds of the model.                                                    *)
(***************************************************************************)
\* longest argument vector handed to the mount wrapper or the client
MaxArgs == 3
\* most comma-separated entries of a generated option string
MaxOpts == 3
\* longest generated path token
MaxTokLen == 3

(***************************************************************************)
(* Python str / list primitives.                                           *)
(***************************************************************************)
\* str.startswith
StartsWith(s, p) == Len(s) >= Len(p) /\ SubSeq(s, 1, Len(p)) = p

\* s[n:]
Drop(s, n) == SubSeq(s, n + 1, Len(s))

\* index of the first occurrence of character c in s, 0 when absent
IndexOf(s, c) ==
    IF \E i \in 1..Len(s) : s[i] = c
    THEN CHOOSE i \in 1..Len(s) : s[i] = c /\ \A j \in 1..(i - 1) : s[j] # c
    ELSE 0

\* index of the last occurrence of character c in s, 0 when absent
LastIndexOf(s, c) ==
    IF \E i \in 1..Len(s) : s[i] = c
    THEN CHOOSE i \in 1..Len(s) : s[i] = c /\ \A j \in (i + 1)..Len(s) : s[j] # c
    ELSE 0

\* c in s
Contains(s, c) == IndexOf(s, c) # 0

\* str.split(c)
RECURSIVE Split(_, _)
Split(s, c) ==
    LET i == IndexOf(s, c)
    IN  IF i = 0 THEN <<s>>
        ELSE <<SubSeq(s, 1, i - 1)>> \o Split(Drop(s, i), c)

\* sep.join(parts)
RECURSIVE Join(_, _)
Join(parts, sep) ==
    IF parts = <<>> THEN <<>>
    ELSE IF Len(parts) = 1 THEN parts[1]
    ELSE parts[1] \o sep \o Join(Tail(parts), sep)

Whitespace == {" ", "\n"}

\* str.strip()
RECURSIVE strip(_)
strip(s) ==
    IF s = <<>> THEN s
    ELSE IF s[1] \in Whitespace THEN strip(Tail(s))
    ELSE IF s[Len(s)] \in Whitespace THEN strip(SubSeq(s, 1, Len(s) - 1))
    ELSE s

Digits == {"0", "1", "2", "3", "4", "5", "6", "7", "8", "9"}

\* code points of the characters the model uses, for str comparison
Code(c) ==
    CASE c = "\n" -> 10 [] c = " " -> 32 [] c = "," -> 44 [] c = "-" -> 45
      [] c = "." -> 46 [] c = "/" -> 47
      [] c = "0" -> 48 [] c = "1" -> 49 [] c = "2" -> 50 [] c = "3" -> 51
      [] c = "4" -> 52 [] c = "5" -> 53 [] c = "6" -> 54 [] c = "7" -> 55
      [] c = "8" -> 56 [] c = "9" -> 57 [] c = "=" -> 61
      [] c = "a" -> 97 [] c = "b" -> 98 [] c = "c" -> 99 [] c = "d" -> 100
      [] c = "e" -> 101 [] c = "f" -> 102 [] c = "g" -> 103 [] c = "h" -> 104
      [] c = "i" -> 105 [] c = "k" -> 107 [] c = "l" -> 108 [] c = "m" -> 109
      [] c = "n" -> 110 [] c = "o" -> 111 [] c = "p" -> 112 [] c = "r" -> 114
      [] c = "s" -> 115 [] c = "t" -> 116 [] c = "u" -> 117 [] c = "v" -> 118
      [] c = "w" -> 119 [] c = "x" -> 120 [] c = "y" -> 121 [] c = "z" -> 122
      [] OTHER -> 63

\* a < b for Python strings (lexicographic by code point)
RECURSIVE StrLess(_, _)
StrLess(a, b) ==
    IF b = <<>> THEN FALSE
    ELSE IF a = <<>> THEN TRUE
    ELSE IF a[1] = b[1] THEN StrLess(Tail(a), Tail(b))
    ELSE Code(a[1]) < Code(b[1])

\* sorted(S) for a finite set of strings
RECURSIVE sorted(_)
sorted(S) ==
    IF S = {} THEN <<>>
    ELSE LET m == CHOOSE x \in S : \A y \in S \ {x} : StrLess(x, y)
         IN  <<m>> \o sorted(S \ {m})

\* the elements of a sequence
Range(q) == {q[i] : i \in 1..Len(q)}

(***************************************************************************)
(* Optional strings (a str or None) and insertion-ordered dicts.           *)
(***************************************************************************)
None == [some |-> FALSE, s |-> <<>>]
Some(s) == [some |-> TRUE, s |-> s]

\* key in d
DictHas(d, k) == \E i \in 1..Len(d) : d[i].k = k

\* d[k]
DictGet(d, k) == (CHOOSE e \in Range(d) : e.k = k).v

\* d[k] = v : an existing key keeps its position, a new key goes last
DictSet(d, k, v) ==
    IF DictHas(d, k)
    THEN [i \in 1..Len(d) |-> IF d[i].k = k THEN [k |-> k, v |-> v] ELSE d[i]]
    ELSE Append(d, [k |-> k, v |-> v])

\* d.pop(k, None)
DictPop(d, k) == SelectSeq(d, LAMBDA e : e.k # k)

(***************************************************************************)
(* os.path                                                                 *)
(***************************************************************************)
\* os.path.join(a, b) for two components
path_join(a, b) ==
    IF StartsWith(b, <<"/">>) THEN b
    ELSE IF a = <<>> \/ a[Len(a)] = "/" THEN a \o b
    ELSE a \o <<"/">> \o b

\* os.path.basename
basename(p) == Drop(p, LastIndexOf(p, "/"))

\* the component loop of os.path.normpath
RECURSIVE NormComps(_, _, _)
NormComps(comps, initial_slashes, new_comps) ==
    IF comps = <<>> THEN new_comps
    ELSE LET comp == Head(comps)
             n    == Len(new_comps)
         IN  IF comp = <<>> \/ comp = <<".">>
             THEN NormComps(Tail(comps), initial_slashes, new_comps)
             ELSE IF \/ comp # <<".", ".">>
                     \/ (initial_slashes = 0 /\ n = 0)
                     \/ (n > 0 /\ new_comps[n] = <<".", ".">>)
             THEN NormComps(Tail(comps), initial_slashes, Append(new_comps, comp))
             ELSE IF n > 0
             THEN NormComps(Tail(comps), initial_slashes, SubSeq(new_comps, 1, n - 1))
             ELSE NormComps(Tail(comps), initial_slashes, new_comps)

\* os.path.normpath (POSIX): exactly two leading slashes are kept
normpath(path) ==
    IF path = <<>> THEN <<".">>
    ELSE LET initial_slashes ==
                 IF ~StartsWith(path, <<"/">>) THEN 0
                 ELSE IF StartsWith(path, <<"/", "/">>)
                         /\ ~StartsWith(path, <<"/", "/", "/">>) THEN 2
                 ELSE 1
             body == Join(NormComps(Split(path, "/"), initial_slashes, <<>>), <<"/">>)
             res  == [i \in 1..initial_slashes |-> "/"] \o body
         IN  IF res = <<>> THEN <<".">> ELSE res

\* os.path.abspath evaluated in working directory cwd
abspath(cwd, path) ==
    IF StartsWith(path, <<"/">>) THEN normpath(path)
    ELSE normpath(path_join(cwd, path))

(***************************************************************************)
(* String constants of the three programs.                                 *)
(***************************************************************************)
\* mount-wrapper.py
REAL_MOUNT == <<"/","u","s","r","/","b","i","n","/","m","o","u","n","t",".","R","E","A","L">>
LOSETUP == <<"l","o","s","e","t","u","p">>
S_o == <<"-","o">>
S_options == <<"-","-","o","p","t","i","o","n","s">>
\* the flags that take an argument (line 55)
ArgFlags ==
    { <<"-","t">>, <<"-","-","t","y","p","e","s">>, <<"-","L">>, <<"-","U">>,
      <<"-","-","s","o","u","r","c","e">>, <<"-","-","t","a","r","g","e","t">> }
K_loop == <<"l","o","o","p">>
K_offset == <<"o","f","f","s","e","t">>
K_sizelimit == <<"s","i","z","e","l","i","m","i","t">>
K_partscan == <<"p","a","r","t","s","c","a","n">>
K_ro == <<"r","o">>
S_f == <<"-","f">>
S_show == <<"-","-","s","h","o","w">>
S_P == <<"-","P">>
S_sizelimit == <<"-","-","s","i","z","e","l","i","m","i","t">>
S_r == <<"-","r">>
\* losetup-client.py and server.py
DEV_PREFIX == <<"/","d","e","v","/">>
DASH == <<"-">>
\* the agent's command-line argument: the container it serves
container_name == <<"c","1">>
container_rootfs ==
    <<"/","v","a","r","/","s","n","a","p","/","l","x","d","/","c","o","m","m","o","n",
      "/","l","x","d","/","s","t","o","r","a","g","e","-","p","o","o","l","s","/",
      "d","e","f","a","u","l","t","/","c","o","n","t","a","i","n","e","r","s">>
    \o <<"/">> \o container_name \o <<"/","r","o","o","t","f","s">>

(***************************************************************************)
(* mount-wrapper.py                                                        *)
(***************************************************************************)
\* the body of the two `for opt in ....split(",")` loops
RECURSIVE ParseOptList(_, _)
ParseOptList(options, opts) ==
    IF opts = <<>> THEN options
    ELSE LET opt == Head(opts)
             eq  == IndexOf(opt, "=")
         IN  IF eq # 0
             THEN ParseOptList(
                      DictSet(options, SubSeq(opt, 1, eq - 1), Some(Drop(opt, eq))),
                      Tail(opts))
             ELSE ParseOptList(DictSet(options, opt, None), Tail(opts))

\* the while loop of parse_mount_args, from index i (1-based)
RECURSIVE ParseLoop(_, _, _, _, _)
ParseLoop(args, i, options, flags, positional) ==
    IF i > Len(args)
    THEN [options |-> options, flags |-> flags, positional |-> positional]
    ELSE LET arg == args[i]
         IN  IF arg \in {S_o, S_options}
             THEN IF i + 1 <= Len(args)
                  THEN ParseLoop(args, i + 2,
                                 ParseOptList(options, Split(args[i + 1], ",")),
                                 flags, positional)
                  ELSE ParseLoop(args, i + 1, options, flags, positional)
             ELSE IF StartsWith(arg, S_o)
             THEN ParseLoop(args, i + 1,
                            ParseOptList(options, Split(Drop(arg, 2), ",")),
                            flags, positional)
             ELSE IF StartsWith(arg, DASH)
             THEN IF arg \in ArgFlags /\ i + 1 <= Len(args)
                  THEN ParseLoop(args, i + 2, options,
                                 flags \o <<arg, args[i + 1]>>, positional)
                  ELSE ParseLoop(args, i + 1, options, Append(flags, arg), positional)
             ELSE ParseLoop(args, i + 1, options, flags, Append(positional, arg))

parse_mount_args(args) ==
    LET r == ParseLoop(args, 1, <<>>, <<>>, <<>>)
    IN  [ options |-> r.options,
          flags   |-> r.flags,
          source  |-> IF Len(r.positional) > 0 THEN Some(r.positional[1]) ELSE None,
          target  |-> IF Len(r.positional) > 1 THEN Some(r.positional[2]) ELSE None ]

\* rebuild_options without its `value is None` branch
OptionPart_always_valued(e) == e.k \o <<"=">> \o e.v.s

\* one entry of the rebuilt option string
OptionPart(e) == IF e.v.some THEN e.k \o <<"=">> \o e.v.s ELSE e.k

RebuildParts(options) ==
    LET kept == SelectSeq(options, LAMBDA e : e.k # K_loop)
    IN  [i \in 1..Len(kept) |-> OptionPart(kept[i])]

rebuild_options(options) == Join(RebuildParts(options), <<",">>)

\* setup_loop_device, lines 86-104: the command it runs
losetup_args(source, options) ==
    <<LOSETUP, S_f, S_show>>
    \o (IF DictHas(options, K_partscan) THEN <<S_P>> ELSE <<>>)
    \o (IF DictHas(options, K_offset)
        THEN <<S_o, DictGet(options, K_offset).s>> ELSE <<>>)
    \o (IF DictHas(options, K_sizelimit)
        THEN <<S_sizelimit, DictGet(options, K_sizelimit).s>> ELSE <<>>)
    \o (IF DictHas(options, K_ro) THEN <<S_r>> ELSE <<>>)
    \o <<source>>

\* setup_loop_device without its returncode check
setup_loop_device_unchecked(returncode, stdout) == Some(strip(stdout))

\* setup_loop_device, lines 108-112: what it returns for the command's outcome
setup_loop_device(returncode, stdout) ==
    IF returncode # 0 THEN None ELSE Some(strip(stdout))

\* main, line 124
use_loop(parsed, files) ==
    /\ DictHas(parsed.options, K_loop)
    /\ parsed.source.some
    /\ parsed.source.s # <<>>
    /\ parsed.source.s \in files

\* the removal loop with `offset` forgotten
LoopOptionKeys_no_offset == <<K_loop, K_sizelimit, K_partscan>>

\* main, lines 137-138
LoopOptionKeys == <<K_loop, K_offset, K_sizelimit, K_partscan>>

RECURSIVE PopAll(_, _)
PopAll(options, keys) ==
    IF keys = <<>> THEN options
    ELSE PopAll(DictPop(options, Head(keys)), Tail(keys))

\* main, lines 137-149: the argument vector of the real mount on the loop path
mount_args(parsed, loop_device) ==
    LET new_options == rebuild_options(PopAll(parsed.options, LoopOptionKeys))
    IN  <<REAL_MOUNT>> \o parsed.flags
        \o (IF new_options # <<>> THEN <<S_o, new_options>> ELSE <<>>)
        \o <<loop_device>>
        \o (IF parsed.target.some /\ parsed.target.s # <<>>
            THEN <<parsed.target.s>> ELSE <<>>)

\* passing through the parsed flags and positionals instead of sys.argv[1:]
passthrough_args_reparsed(args) ==
    LET parsed == parse_mount_args(args)
    IN  <<REAL_MOUNT>> \o parsed.flags
        \o (IF parsed.source.some THEN <<parsed.source.s>> ELSE <<>>)
        \o (IF parsed.target.some THEN <<parsed.target.s>> ELSE <<>>)

\* main, line 156: the argument vector of the real mount when passing through
passthrough_args(args) == <<REAL_MOUNT>> \o args

(***************************************************************************)
(* losetup-client.py                                                       *)
(***************************************************************************)
\* one iteration of convert_paths
convert_path(cwd, arg) ==
    IF StartsWith(arg, DASH) \/ StartsWith(arg, DEV_PREFIX) THEN arg
    ELSE Drop(abspath(cwd, arg), 1)

convert_paths(cwd, args) == [i \in 1..Len(args) |-> convert_path(cwd, args[i])]

\* exit status of the process for sys.exit(n): the low eight bits
ExitStatus(n) == n % 256

(***************************************************************************)
(* server.py                                                               *)
(*                                                                         *)
(* A request body as request.get_json() returns it:                        *)
(*   [t |-> "null"]    None (a JSON null body)                             *)
(*   [t |-> "array"]   a JSON value that is not an object                  *)
(*   [t |-> "object"]  a dict; has_args says whether it has the key "args" *)
(*                     and args is that key's value, whose items are       *)
(*                     [t |-> "str", s |-> chars] or [t |-> "int", ...].   *)
(***************************************************************************)
EmptyList == [t |-> "list", items |-> <<>>]

\* data.get("args", [])
data_get_args(data) == IF data.has_args THEN data.args ELSE EmptyList

\* isinstance(args, list) and all(isinstance(a, str) for a in args)
IsListOfStr(v) == v.t = "list" /\ \A i \in 1..Len(v.items) : v.items[i].t = "str"

Strings(v) == [i \in 1..Len(v.items) |-> v.items[i].s]

\* lines 78-83: join the last non-option, non-device token onto the rootfs
reroot(rootfs, args) ==
    LET cand == {i \in 1..Len(args) :
                    ~StartsWith(args[i], DASH) /\ ~StartsWith(args[i], DEV_PREFIX)}
    IN  IF cand = {} THEN args
        ELSE LET i == CHOOSE j \in cand : \A k \in cand : k <= j
             IN  [args EXCEPT ![i] = path_join(rootfs, args[i])]

\* glob.glob(f"{device_path}p[0-9]*") over the device nodes that exist:
\* the literal prefix, one digit, then any characters of the same file name
glob_partitions(device_path, nodes) ==
    LET prefix == device_path \o <<"p">>
    IN  {n \in nodes :
            /\ StartsWith(n, prefix)
            /\ Len(n) > Len(prefix)
            /\ n[Len(prefix) + 1] \in Digits
            /\ ~Contains(Drop(n, Len(prefix)), "/")}

\* lines 105-107
devices_to_add(device_path, nodes) ==
    <<device_path>> \o sorted(glob_partitions(device_path, nodes))

\* lines 112-120: one device-add directive
lxc_device_add(dev_path) ==
    << <<"l","x","c">>, <<"c","o","n","f","i","g">>, <<"d","e","v","i","c","e">>,
       <<"a","d","d">>, container_name, basename(dev_path),
       <<"u","n","i","x","-","b","l","o","c","k">>,
       <<"s","o","u","r","c","e","=">> \o dev_path,
       <<"p","a","t","h","=">> \o dev_path >>

\* lines 101-122: the directives issued after the tool has run
device_adds(args, returncode, stdout, nodes) ==
    IF S_show \in Range(args) /\ returncode = 0
    THEN LET device_path == strip(stdout)
         IN  IF StartsWith(device_path, DEV_PREFIX)
             THEN LET devs == devices_to_add(device_path, nodes)
                  IN  [i \in 1..Len(devs) |-> lxc_device_add(devs[i])]
             ELSE <<>>
    ELSE <<>>

ErrorResponse(code) ==
    [present |-> TRUE, status |-> code, has_returncode |-> FALSE,
     returncode |-> 0, stdout |-> <<>>]

\* does the handler get as far as running losetup for this body
accepted(data) == data.t = "object" /\ IsListOfStr(data_get_args(data))

\* losetup(): the response and the processes spawned, in order, when the
\* tool exits with returncode and prints stdout and the device nodes are nodes
losetup(data, returncode, stdout, nodes) ==
    IF data.t = "null"
    THEN [resp |-> ErrorResponse(400), procs |-> <<>>]
    ELSE IF data.t # "object"
    \* data.get raises AttributeError: an unhandled exception, answered 500
    THEN [resp |-> ErrorResponse(500), procs |-> <<>>]
    ELSE IF ~IsListOfStr(data_get_args(data))
    THEN [resp |-> ErrorResponse(400), procs |-> <<>>]
    ELSE LET args == Strings(data_get_args(data))
             cmd  == <<LOSETUP>> \o reroot(container_rootfs, args)
         IN  [resp  |-> [present |-> TRUE, status |-> 200, has_returncode |-> TRUE,
                         returncode |-> returncode, stdout |-> stdout],
              procs |-> <<cmd>> \o device_adds(args, returncode, stdout, nodes)]

(***************************************************************************)
(* The inputs the model draws from.                                        *)
(***************************************************************************)
\* all sequences over S of length lo..hi
Seqs(S, lo, hi) == UNION {[1..k -> S] : k \in lo..hi}

DiskImg == <<"/","t","m","p","/","d","i","s","k",".","i","m","g">>
MntX == <<"/","m","n","t","/","x">>
\* -o loop,offset=512,ro /tmp/disk.img /mnt/x
E2EArgv ==
    << S_o,
       <<"l","o","o","p",",","o","f","f","s","e","t","=","5","1","2",",","r","o">>,
       DiskImg, MntX >>

MountTokens ==
    { S_o, K_loop, K_ro, <<"-","o","l","o","o","p",",","o","f","f","s","e","t","=","5">>,
      <<"-","t">>, <<"-","v">>, <<"a">>, <<"/","m">>, <<>> }
MountArgvs == Seqs(MountTokens, 0, MaxArgs) \cup {E2EArgv}
\* the paths that are regular files when the wrapper runs
FileSets == { {}, {<<"a">>, DiskImg} }

ClientTokens ==
    { S_show, <<"-","d">>, <<"a">>, <<"/","a">>, <<".",".">>,
      <<"/","d","e","v","/","l","o","o","p","7">> }
ClientArgvs == Seqs(ClientTokens, 0, MaxArgs)
Cwds == { <<"/">>, <<"/","r">> }

Str(s) == [t |-> "str", s |-> s]
JsonItems ==
    { Str(S_show), Str(<<"a">>), Str(<<"/","a">>), Str(<<".",".","/","a">>),
      [t |-> "int", s |-> <<>>] }
JsonArgs ==
    {[t |-> "list", items |-> q] : q \in Seqs(JsonItems, 0, MaxArgs)}
        \cup { [t |-> "str", items |-> <<>>], [t |-> "null", items |-> <<>>] }
Bodies ==
    { [t |-> "null", has_args |-> FALSE, args |-> EmptyList],
      [t |-> "array", has_args |-> FALSE, args |-> EmptyList],
      [t |-> "object", has_args |-> FALSE, args |-> EmptyList] }
        \cup {[t |-> "object", has_args |-> TRUE, args |-> a] : a \in JsonArgs}

\* what the privileged tool can do: exit statuses (a negative one for a
\* signal) and what it prints
ToolReturnCodes == {0, 1, -9}
Loop7 == <<"/","d","e","v","/","l","o","o","p","7">>
ToolOutputs == { <<>>, Loop7 \o <<"\n">>, <<"x","\n">> }
\* device nodes that may exist once the tool has run
NodePool ==
    { Loop7 \o <<"p","1">>, Loop7 \o <<"p","1","0">>, Loop7 \o <<"p","2">>,
      Loop7 \o <<"p","1","x">>, Loop7 \o <<"0">> }

(***************************************************************************)
(* State.                                                                  *)
(***************************************************************************)
VARIABLES
    w_pc,       \* mount wrapper: "off", "start", "losetup", "exec", "exit"
    w_argv,     \* its sys.argv[1:]
    files,      \* the paths os.path.isfile holds of
    w_call,     \* the command its subprocess.run was given, <<>> before
    w_exec,     \* the argument vector its os.execv was given, <<>> before
    w_status,   \* its exit status, -1 while it has not exited
    c_pc,       \* losetup client: "off", "start", "request", "exit"
    c_argv,     \* its sys.argv[1:]
    c_cwd,      \* its working directory
    c_how,      \* how it ended: "", "gateway", "transport", "response"
    c_stdout,   \* what it printed to stdout
    c_status,   \* its exit status, -1 while it has not exited
    req,        \* the POST /losetup in flight
    resp,       \* the agent's response
    s_procs,    \* the processes the agent spawned for the request, in order
    s_tool,     \* the outcome of the tool the agent ran
    s_nodes,    \* the device nodes the agent's glob saw
    p_pc, p_cwd, p_tok, p_wire, p_host,   \* one token through both translations
    o_pc, o_entries, o_map, o_out         \* one option string through parse, rebuild

vars_w == <<w_pc, w_argv, files, w_call, w_exec, w_status>>
vars_c == <<c_pc, c_argv, c_cwd, c_how, c_stdout, c_status>>
vars_s == <<req, resp, s_procs, s_tool, s_nodes>>
vars_p == <<p_pc, p_cwd, p_tok, p_wire, p_host>>
vars_o == <<o_pc, o_entries, o_map, o_out>>
vars == <<vars_w, vars_c, vars_s, vars_p, vars_o>>

NoReq == [present |-> FALSE, body |-> [t |-> "null", has_args |-> FALSE, args |-> EmptyList]]
NoResp == [present |-> FALSE, status |-> 0, has_returncode |-> FALSE,
           returncode |-> 0, stdout |-> <<>>]
NoTool == [ran |-> FALSE, returncode |-> 0, stdout |-> <<>>]

WrapperOff ==
    /\ w_pc = "off" /\ w_argv = <<>> /\ files = {}
    /\ w_call = <<>> /\ w_exec = <<>> /\ w_status = -1
ClientOff ==
    /\ c_pc = "off" /\ c_argv = <<>> /\ c_how = "" /\ c_stdout = <<>> /\ c_status = -1
AgentIdle ==
    /\ resp = NoResp /\ s_procs = <<>> /\ s_tool = NoTool /\ s_nodes = {}
PathOff ==
    /\ p_pc = "off" /\ p_cwd = <<"/">> /\ p_tok = <<>> /\ p_wire = <<>> /\ p_host = <<>>
OptionsOff ==
    /\ o_pc = "off" /\ o_entries = <<>> /\ o_map = <<>> /\ o_out = <<>>

\* mount-wrapper.py is run
InitMount ==
    /\ w_pc = "start" /\ w_argv \in MountArgvs /\ files \in FileSets
    /\ w_call = <<>> /\ w_exec = <<>> /\ w_status = -1
    /\ ClientOff /\ c_cwd \in Cwds /\ req = NoReq /\ AgentIdle

\* losetup-client.py is run directly
InitClient ==
    /\ WrapperOff
    /\ c_pc = "start" /\ c_argv \in ClientArgvs /\ c_cwd \in Cwds
    /\ c_how = "" /\ c_stdout = <<>> /\ c_status = -1
    /\ req = NoReq /\ AgentIdle

\* some other HTTP client posts a body to /losetup
InitPost ==
    /\ WrapperOff /\ ClientOff /\ c_cwd = <<"/">>
    /\ \E b \in Bodies : req = [present |-> TRUE, body |-> b]
    /\ AgentIdle

Init == (InitMount \/ InitClient \/ InitPost) /\ PathOff /\ OptionsOff

(***************************************************************************)
(* mount-wrapper.py main                                                   *)
(***************************************************************************)
\* lines 116-124, 153-156: not a loop mount, exec the real mount as called
MountPassThrough ==
    /\ w_pc = "start"
    /\ ~use_loop(parse_mount_args(w_argv), files)
    /\ w_exec' = passthrough_args(w_argv)
    /\ w_pc' = "exec"
    /\ UNCHANGED <<w_argv, files, w_call, w_status, vars_c, vars_s, vars_p, vars_o>>

\* lines 116-130, 86-107: a loop mount, run losetup (the client) and wait
MountRunLosetup ==
    /\ w_pc = "start"
    /\ LET parsed == parse_mount_args(w_argv)
       IN  /\ use_loop(parsed, files)
           /\ w_call' = losetup_args(parsed.source.s, parsed.options)
    /\ w_pc' = "losetup"
    /\ c_pc' = "start"
    /\ c_argv' = Tail(w_call')
    /\ UNCHANGED <<w_argv, files, w_exec, w_status, c_cwd, c_how, c_stdout, c_status,
                   vars_s, vars_p, vars_o>>

\* lines 108-112, 131-152: losetup has exited; give up or exec the real mount
MountAfterLosetup ==
    /\ w_pc = "losetup"
    /\ c_pc = "exit"
    /\ LET loop_device == setup_loop_device(c_status, c_stdout)
       IN  IF ~loop_device.some
           THEN /\ w_pc' = "exit"
                /\ w_status' = 1
                /\ w_exec' = w_exec
           ELSE /\ w_pc' = "exec"
                /\ w_status' = w_status
                /\ w_exec' = mount_args(parse_mount_args(w_argv), loop_device.s)
    /\ UNCHANGED <<w_argv, files, w_call, vars_c, vars_s, vars_p, vars_o>>

(***************************************************************************)
(* losetup-client.py main                                                  *)
(***************************************************************************)
\* the exit status of sys.exit(1) after URLError (line 64)
TRANSPORT_EXIT == 1

\* line 45: no default gateway, RuntimeError ends the process
ClientNoGateway ==
    /\ c_pc = "start"
    /\ c_pc' = "exit"
    /\ c_how' = "gateway"
    /\ c_status' = 1
    /\ UNCHANGED <<c_argv, c_cwd, c_stdout, vars_w, vars_s, vars_p, vars_o>>

\* lines 45-60: translate the arguments and post them
ClientPost ==
    /\ c_pc = "start"
    /\ req' = [present |-> TRUE,
               body |-> [t |-> "object", has_args |-> TRUE,
                         args |-> [t |-> "list",
                                   items |-> [i \in 1..Len(c_argv) |->
                                                 Str(convert_paths(c_cwd, c_argv)[i])]]]]
    /\ c_pc' = "request"
    /\ UNCHANGED <<c_argv, c_cwd, c_how, c_stdout, c_status, resp, s_procs, s_tool,
                   s_nodes, vars_w, vars_p, vars_o>>

\* lines 62-64: the exchange fails (URLError that is no HTTP response)
ClientTransportFail ==
    /\ c_pc = "request"
    /\ c_pc' = "exit"
    /\ c_how' = "transport"
    /\ c_status' = TRANSPORT_EXIT
    /\ req' = IF resp.present THEN req ELSE NoReq
    /\ UNCHANGED <<c_argv, c_cwd, c_stdout, resp, s_procs, s_tool, s_nodes,
                   vars_w, vars_p, vars_o>>

\* exiting with the default status whatever the response says
client_exit_ignoring_returncode(r) == TRANSPORT_EXIT

\* lines 59-71: the exit status for a response that arrived
client_exit(r) ==
    IF r.status # 200 THEN TRANSPORT_EXIT
    ELSE ExitStatus(IF r.has_returncode THEN r.returncode ELSE 1)

\* lines 60-71: the response arrives; print stdout and exit
ClientReceive ==
    /\ c_pc = "request"
    /\ resp.present
    /\ c_pc' = "exit"
    /\ c_how' = "response"
    /\ c_stdout' = IF resp.status = 200 THEN resp.stdout ELSE <<>>
    /\ c_status' = client_exit(resp)
    /\ UNCHANGED <<c_argv, c_cwd, vars_w, vars_s, vars_p, vars_o>>

(***************************************************************************)
(* server.py losetup()                                                     *)
(***************************************************************************)
AgentHandle ==
    /\ req.present
    /\ ~resp.present
    /\ \E rc \in ToolReturnCodes, out \in ToolOutputs :
         \E nodes \in (IF /\ accepted(req.body)
                          /\ device_adds(Strings(data_get_args(req.body)), rc, out, {}) # <<>>
                       THEN SUBSET NodePool ELSE {{}}) :
            LET h == losetup(req.body, rc, out, nodes)
            IN  /\ resp' = h.resp
                /\ s_procs' = h.procs
                /\ s_nodes' = nodes
                /\ s_tool' = IF accepted(req.body)
                             THEN [ran |-> TRUE, returncode |-> rc, stdout |-> out]
                             ELSE NoTool
    /\ UNCHANGED <<req, vars_w, vars_c, vars_p, vars_o>>

Next ==
    \/ MountPassThrough
    \/ MountRunLosetup
    \/ MountAfterLosetup
    \/ ClientNoGateway
    \/ ClientPost
    \/ ClientTransportFail
    \/ ClientReceive
    \/ AgentHandle

Spec == Init /\ [][Next]_vars

(***************************************************************************)
(* One token through the client's translation and the agent's re-rooting,  *)
(* with the rootfs base set to the caller's root.                          *)
(***************************************************************************)
PathChars == {"/", ".", "-", "a"}
PathTokens ==
    Seqs(PathChars, 1, MaxTokLen)
        \cup { DEV_PREFIX \o <<"a">>, <<"/","d","e","v">>, <<"d","e","v","/","a">> }
CallerRoot == <<"/">>

SystemOff ==
    /\ WrapperOff /\ ClientOff /\ c_cwd = <<"/">> /\ req = NoReq /\ AgentIdle

InitPath ==
    /\ SystemOff /\ OptionsOff
    /\ p_pc = "start" /\ p_tok \in PathTokens /\ p_cwd \in Cwds
    /\ p_wire = <<>> /\ p_host = <<>>

\* losetup-client.py convert_paths on the token
PathConvert ==
    /\ p_pc = "start"
    /\ p_wire' = convert_paths(p_cwd, <<p_tok>>)[1]
    /\ p_pc' = "wire"
    /\ UNCHANGED <<p_cwd, p_tok, p_host, vars_w, vars_c, vars_s, vars_o>>

\* server.py lines 78-83 on the token that arrived
PathReroot ==
    /\ p_pc = "wire"
    /\ p_host' = reroot(CallerRoot, <<p_wire>>)[1]
    /\ p_pc' = "done"
    /\ UNCHANGED <<p_cwd, p_tok, p_wire, vars_w, vars_c, vars_s, vars_o>>

NextPath == PathConvert \/ PathReroot

SpecPath == InitPath /\ [][NextPath]_vars

(***************************************************************************)
(* One option string through parse_mount_args and rebuild_options.         *)
(***************************************************************************)
OptEntries ==
    { <<"a">>, <<"b">>, <<"a","=","1">>, <<"a","=","2">>, <<"b","=">>,
      <<"c","=","1","=","2">> }

InitOptions ==
    /\ SystemOff /\ PathOff
    /\ o_pc = "start" /\ o_entries \in Seqs(OptEntries, 1, MaxOpts)
    /\ o_map = <<>> /\ o_out = <<>>

\* the option string the entries spell
OptionString(entries) == Join(entries, <<",">>)

OptParse ==
    /\ o_pc = "start"
    /\ o_map' = parse_mount_args(<<S_o, OptionString(o_entries)>>).options
    /\ o_pc' = "parsed"
    /\ UNCHANGED <<o_entries, o_out, vars_w, vars_c, vars_s, vars_p>>

OptRebuild ==
    /\ o_pc = "parsed"
    /\ o_out' = rebuild_options(o_map)
    /\ o_pc' = "done"
    /\ UNCHANGED <<o_entries, o_map, vars_w, vars_c, vars_s, vars_p>>

NextOptions == OptParse \/ OptRebuild

SpecOptions == InitOptions /\ [][NextOptions]_vars

(***************************************************************************)
(* Properties.                                                             *)
(***************************************************************************)
Parsed == parse_mount_args(w_argv)
\* the arguments of the request the agent accepted
ReqArgs == Strings(data_get_args(req.body))

\* a body that is a JSON object with an `args` field that is a list of strings
WellFormedBody(b) == b.t = "object" /\ b.has_args /\ IsListOfStr(b.args)

\* C1: every POST whose body is not a JSON object with an `args` list of
\* strings is answered with a 4xx response and spawns no process.
C1_MalformedRejected ==
    (resp.present /\ ~WellFormedBody(req.body))
        => (resp.status \in 400..499 /\ s_procs = <<>>)

\* C2: on the loop path, when losetup exits non-zero setup_loop_device
\* returns no device and the wrapper exits non-zero without exec'ing the real
\* mount; an exec of the real mount on the loop path follows a losetup that
\* exited zero.
C2_NoMountAfterFailedLosetup ==
    /\ (w_call # <<>> /\ c_pc = "exit" /\ c_status # 0)
           => /\ ~setup_loop_device(c_status, c_stdout).some
              /\ w_exec = <<>>
              /\ w_pc \in {"losetup", "exit"}
              /\ (w_pc = "exit" => w_status # 0)
    /\ (w_call # <<>> /\ w_exec # <<>>) => (c_pc = "exit" /\ c_status = 0)

C2_Witness ==
    w_pc = "exit" /\ w_call # <<>> /\ c_how = "response" /\ c_status # 0 /\ w_status = 1

\* C3 as amended: the client exits with the agent's returncode reduced to
\* the eight bits of an exit status when a 200 response arrived, and with the
\* fixed non-zero status 1 on a transport failure.
C3_ExitMirrorsReturncode ==
    c_pc = "exit" =>
        /\ (c_how = "response" /\ resp.status = 200)
               => c_status = resp.returncode % 256
        /\ c_how = "transport" => (c_status = TRANSPORT_EXIT /\ c_status # 0)

\* a relayed tool failure that exits exactly like a transport failure
C3_Witness ==
    /\ c_pc = "exit" /\ c_how = "response" /\ s_tool.ran
    /\ resp.returncode = 1 /\ c_status = TRANSPORT_EXIT

\* C3 as stated: the exit status is the returncode (as an exit status), and
\* a completed delegation never exits with the status of a transport failure.
C3_Original ==
    c_pc = "exit" =>
        /\ (c_how = "response" /\ resp.status = 200)
               => (c_status = resp.returncode % 256 /\ c_status # TRANSPORT_EXIT)
        /\ c_how = "transport" => c_status = TRANSPORT_EXIT

\* a non-empty string of digits
AllDigits(s) == s # <<>> /\ \A i \in 1..Len(s) : s[i] \in Digits

\* the nodes named <base>p<digits>
PartitionNodes(base, nodes) ==
    {n \in nodes : StartsWith(n, base \o <<"p">>) /\ AllDigits(Drop(n, Len(base) + 1))}

\* C4: the device-add directives are none unless the request had --show,
\* the tool exited 0 and its trimmed stdout starts with /dev/; otherwise one
\* for the base device, then one per node <base>p<digits> in sorted order.
C4_DeviceAddSequence ==
    s_tool.ran =>
        LET base == strip(s_tool.stdout)
            devs == <<base>> \o sorted(PartitionNodes(base, s_nodes))
        IN  Tail(s_procs) =
                IF /\ S_show \in Range(ReqArgs)
                   /\ s_tool.returncode = 0
                   /\ StartsWith(base, DEV_PREFIX)
                THEN [i \in 1..Len(devs) |-> lxc_device_add(devs[i])]
                ELSE <<>>

\* C5: for `-o loop,offset=512,ro /tmp/disk.img /mnt/x` the tool is run
\* with -f, --show, -o 512 and -r, and only the last token (the backing
\* file) differs from what setup_loop_device built.
C5_E2EToolArgv ==
    (w_argv = E2EArgv /\ s_tool.ran) =>
        LET cmd == s_procs[1]
        IN  /\ {S_f, S_show, S_r} \subseteq Range(cmd)
            /\ \E i \in 1..(Len(cmd) - 1) : cmd[i] = S_o /\ cmd[i + 1] = <<"5","1","2">>
            /\ Len(cmd) = Len(w_call)
            /\ \A i \in 1..(Len(cmd) - 1) : cmd[i] = w_call[i]

\* the keys of a comma-separated option string
OptionKeys(str) ==
    {IF IndexOf(e, "=") = 0 THEN e ELSE SubSeq(e, 1, IndexOf(e, "=") - 1) :
        e \in Range(Split(str, ","))}

HasTarget == Parsed.target.some /\ Parsed.target.s # <<>>
\* where the loop device stands in the real mount's argument vector
DevicePos == IF HasTarget THEN Len(w_exec) - 1 ELSE Len(w_exec)
\* what stands between the replayed flags and the device: nothing or -o <string>
OptionPartOfExec == SubSeq(w_exec, 2 + Len(Parsed.flags), DevicePos - 1)

PositionalsSubstituted ==
    /\ w_exec[1] = REAL_MOUNT
    /\ w_exec[DevicePos] = strip(c_stdout)
    /\ HasTarget => w_exec[Len(w_exec)] = Parsed.target.s

\* C6 as amended: on the successful loop path the real mount gets the loop
\* device in place of the source, then the target, and a rebuilt -o string
\* without loop, offset, sizelimit and partscan, in which `ro` is kept.
C6_MountArgsLoopPath ==
    (w_pc = "exec" /\ w_call # <<>>) =>
        /\ PositionalsSubstituted
        /\ \/ OptionPartOfExec = <<>>
           \/ /\ Len(OptionPartOfExec) = 2
              /\ OptionPartOfExec[1] = S_o
              /\ OptionKeys(OptionPartOfExec[2])
                     \cap {K_loop, K_offset, K_sizelimit, K_partscan} = {}
        /\ DictHas(Parsed.options, K_ro)
               => /\ OptionPartOfExec # <<>>
                  /\ K_ro \in OptionKeys(OptionPartOfExec[2])
        /\ w_argv = E2EArgv
               => w_exec = <<REAL_MOUNT, S_o, K_ro, strip(c_stdout), MntX>>

C6_Witness ==
    /\ w_pc = "exec" /\ w_argv = E2EArgv
    /\ w_exec = <<REAL_MOUNT, S_o, K_ro, Loop7, MntX>>

\* C6 as stated: the rebuilt -o string contains none of offset, ro, loop.
C6_Original ==
    (w_pc = "exec" /\ w_call # <<>>) =>
        /\ PositionalsSubstituted
        /\ \/ OptionPartOfExec = <<>>
           \/ /\ Len(OptionPartOfExec) = 2
              /\ OptionPartOfExec[1] = S_o
              /\ OptionKeys(OptionPartOfExec[2]) \cap {K_loop, K_offset, K_ro} = {}

EntryKey(e) == IF IndexOf(e, "=") = 0 THEN e ELSE SubSeq(e, 1, IndexOf(e, "=") - 1)
EntryValue(e) == IF IndexOf(e, "=") = 0 THEN None ELSE Some(Drop(e, IndexOf(e, "=")))
DistinctKeys(es) ==
    \A i, j \in 1..Len(es) : i # j => EntryKey(es[i]) # EntryKey(es[j])
\* the map {k1: v1, k2: None, ...}, one item per entry, in entry order
EntryMap(es) == [i \in 1..Len(es) |-> [k |-> EntryKey(es[i]), v |-> EntryValue(es[i])]]

\* the entries that open a key, in order, and the last entry of each key
FirstOfKey(es) ==
    {i \in 1..Len(es) : \A j \in 1..(i - 1) : EntryKey(es[j]) # EntryKey(es[i])}
NthOf(S, n) == CHOOSE i \in S : Cardinality({j \in S : j < i}) = n - 1
LastOfKey(es, i) ==
    CHOOSE j \in 1..Len(es) :
        /\ EntryKey(es[j]) = EntryKey(es[i])
        /\ \A m \in (j + 1)..Len(es) : EntryKey(es[m]) # EntryKey(es[i])
\* one entry per key: at the key's first position, with the key's last entry
LastWins(es) ==
    [n \in 1..Cardinality(FirstOfKey(es)) |-> es[LastOfKey(es, NthOf(FirstOfKey(es), n))]]

\* C7 as amended: for an option string whose entries have pairwise distinct
\* keys, parse_mount_args yields one item per entry in order and
\* rebuild_options returns the original string; when a key repeats, the map
\* and the rebuilt string keep one entry for it, at the key's first position
\* with its last value.
C7_RoundTripDistinctKeys ==
    o_pc = "done" =>
        /\ DistinctKeys(o_entries)
               => (o_map = EntryMap(o_entries) /\ o_out = OptionString(o_entries))
        /\ o_map = EntryMap(LastWins(o_entries))
        /\ o_out = OptionString(LastWins(o_entries))

C7_Witness ==
    /\ o_pc = "done" /\ Len(o_entries) = 3 /\ DistinctKeys(o_entries)
    /\ \E i \in 1..3 : o_map[i].v.some
    /\ \E i \in 1..3 : ~o_map[i].v.some
    /\ o_out = OptionString(o_entries)

\* C7 as stated: for every option string, every entry's key maps to a value
\* of that key and the rebuilt string is the original.
C7_Original ==
    o_pc = "done" =>
        /\ \A i \in 1..Len(o_entries) :
               /\ DictHas(o_map, EntryKey(o_entries[i]))
               /\ \E j \in 1..Len(o_entries) :
                      /\ EntryKey(o_entries[j]) = EntryKey(o_entries[i])
                      /\ DictGet(o_map, EntryKey(o_entries[i])) = EntryValue(o_entries[j])
        /\ o_out = OptionString(o_entries)

\* two absolute paths name the same file: POSIX reads a leading // as /
SamePath(a, b) ==
    LET one(p) == IF StartsWith(p, <<"/", "/">>) THEN Tail(p) ELSE p
    IN  one(a) = one(b)

\* C8: a token starting with neither - nor /dev/ goes over the wire as its
\* absolute form less one leading separator and is re-rooted under / to that
\* absolute form; a token starting with - or /dev/ passes both steps unchanged.
C8_TranslateCompose ==
    p_pc = "done" =>
        IF StartsWith(p_tok, DASH) \/ StartsWith(p_tok, DEV_PREFIX)
        THEN /\ p_wire = p_tok
             /\ p_host = p_tok
             /\ convert_path(p_cwd, p_wire) = p_wire
        ELSE /\ <<"/">> \o p_wire = abspath(p_cwd, p_tok)
             /\ SamePath(p_host, abspath(p_cwd, p_tok))

\* a is b with some elements left out
RECURSIVE IsSubsequence(_, _)
IsSubsequence(a, b) ==
    IF a = <<>> THEN TRUE
    ELSE IF b = <<>> THEN FALSE
    ELSE IF Head(a) = Head(b) THEN IsSubsequence(Tail(a), Tail(b))
    ELSE IsSubsequence(a, Tail(b))

Under(base, p) ==
    LET n == normpath(p) IN n = base \/ StartsWith(n, base \o <<"/">>)

\* C10: for every accepted request only the last token starting with
\* neither - nor /dev/ is rewritten, and the rewritten token is a path under
\* the container's rootfs whatever the caller sent.
C10_Confinement ==
    s_tool.ran =>
        LET args == ReqArgs
            cmd  == Tail(s_procs[1])
            cand == {i \in 1..Len(args) :
                        ~StartsWith(args[i], DASH) /\ ~StartsWith(args[i], DEV_PREFIX)}
        IN  /\ Len(cmd) = Len(args)
            /\ \A i \in 1..Len(args) :
                   IF i \in cand /\ \A j \in cand : j <= i
                   THEN Under(container_rootfs, cmd[i])
                   ELSE cmd[i] = args[i]

(***************************************************************************)
(* What does hold where C1, C4, C8 and C10 fail.                           *)
(***************************************************************************)
\* a null body, an `args` that is no list and a list with a non-string
\* element are answered 400 before any process is spawned
Agent_IllTypedArgsRejected ==
    (/\ resp.present
     /\ \/ req.body.t = "null"
        \/ (req.body.t = "object" /\ req.body.has_args /\ ~IsListOfStr(req.body.args)))
        => (resp.status = 400 /\ s_procs = <<>> /\ ~s_tool.ran)

\* the device-add sequence is the claimed one whenever every node the glob
\* matches is named <base>p<digits>
Agent_DeviceAddsForPartitionNames ==
    (/\ s_tool.ran
     /\ glob_partitions(strip(s_tool.stdout), s_nodes)
            \subseteq PartitionNodes(strip(s_tool.stdout), s_nodes))
        => C4_DeviceAddSequence

\* the two translations compose whenever the token sent does not start with -
Path_ComposeUnlessDash ==
    (p_pc = "done" /\ ~StartsWith(p_wire, DASH))
        => SamePath(p_host, abspath(p_cwd, p_tok))

\* the tool's arguments are the request's, but for the last token starting
\* with neither - nor /dev/, which is joined onto the rootfs
Agent_OnlyLastPositionalRewritten ==
    s_tool.ran =>
        LET cmd  == Tail(s_procs[1])
            cand == {i \in 1..Len(ReqArgs) :
                        ~StartsWith(ReqArgs[i], DASH) /\ ~StartsWith(ReqArgs[i], DEV_PREFIX)}
        IN  /\ Len(cmd) = Len(ReqArgs)
            /\ \A i \in 1..Len(cmd) :
                   cmd[i] = IF i \in cand /\ \A j \in cand : j <= i
                            THEN path_join(container_rootfs, ReqArgs[i])
                            ELSE ReqArgs[i]

====
